---- MODULE Spec2Model ----
(***************************************************************************)
(* Remote storage driver of Cloudreve (pkg/filemanager/driver/remote).     *)
(* The Driver delegates every storage operation to the slave node through  *)
(* its uploadClient (the Session Client).  The model keeps the driver's    *)
(* handlers as they are written, the Session Client as an environment that *)
(* answers every call with any result its interface allows, and the slave  *)
(* side of the upload session protocol.                                    *)
(***************************************************************************)
EXTENDS Integers, Sequences, FiniteSets, TLC

\* ---------------------------------------------------------------- bounds
NumSessions == 2
NumStreams == 2
MaxObjects == 2

Sessions == 1..NumSessions
Streams == 1..NumStreams

\* ------------------------------------------------------- values and errors
\* A Go error is the chain of its messages, outermost first; nil is empty.
Nil == <<>>
ErrTransport == <<"transport error">>
ErrParse == <<"parse error">>
ErrSign == <<"sign error">>
ClientErrs == {Nil, ErrTransport}

\* fmt.Errorf("msg: %w", err)
Wrap(msg, err) == <<msg>> \o err

SlaveMode == "slave"
MasterMode == "master"
Modes == {MasterMode, SlaveMode}
PolicyTypeRemote == "remote"
SiteURL == "https://master"
BadServer == ":bad"

\* The storage policies an adapter may be constructed with.
\* The settings of the policy of a node: the two nodes differ in every one
\* of the settings Capabilities reads.
PolicySettings(node) ==
    IF node = 1
    THEN [ChunkSize |-> 4,
          ThumbExts |-> <<>>, ThumbGeneratorProxy |-> FALSE,
          ThumbMaxSize |-> 0, ThumbSupportAllExts |-> TRUE,
          MediaMetaExts |-> <<"mp4">>, MediaMetaGeneratorProxy |-> TRUE]
    ELSE [ChunkSize |-> 4,
          ThumbExts |-> <<"jpg", "png">>, ThumbGeneratorProxy |-> TRUE,
          ThumbMaxSize |-> 1024, ThumbSupportAllExts |-> FALSE,
          MediaMetaExts |-> <<>>, MediaMetaGeneratorProxy |-> FALSE]

NewPolicy(server, key, node) ==
    [NodeID |-> node,
     Edges |-> [Node |-> [Server |-> server, SlaveKey |-> key]],
     Settings |-> PolicySettings(node)]

Policies ==
    {NewPolicy("http://slave", "key", 1),
     NewPolicy("http://slave", "key", 2),
     NewPolicy(BadServer, "key", 1),
     NewPolicy("http://slave", "", 1)}

\* -------------------------------------------------------------------- URLs
\* A URL is a host, path segments and query values; a string is the
\* sequence of its parts.
NoString == <<>>

\* url.Parse
ParseOK(server) == server # BadServer

\* (*url.URL).String
UrlString(u) == <<u.host>> \o u.path \o u.query

\* routes.MasterSlaveCallbackUrl
MasterSlaveCallbackUrl(siteURL, policyType, sid, secret) ==
    [host |-> siteURL, path |-> <<"callback", policyType, sid, secret>>, query |-> <<>>]

\* routes.SlaveFileContentUrl
SlaveFileContentUrl(server, src, displayName, isDownload, speed, nodeId) ==
    [host |-> server,
     path |-> <<"file", "content", nodeId, src, speed, displayName>>,
     query |-> <<isDownload>>]

\* routes.SlaveThumbUrl
SlaveThumbUrl(server, src, ext) ==
    [host |-> server, path |-> <<"file", "thumb", src, ext>>, query |-> <<>>]

\* auth.SignURI with auth.HMACAuth: the signature is a keyed digest of the
\* URL and its expiry, appended to the URL; signing needs a secret.
SignURI(key, uri, expire) ==
    IF key = ""
    THEN [err |-> ErrSign, url |-> NoString]
    ELSE [err |-> Nil, url |-> uri \o <<"sign", <<"hmac", key, uri, expire>>, expire>>]

\* ---------------------------------------------------------------- sessions
SessionID(s) == <<"sid", s>>
\* an identifier that belongs to no session
StrayID == <<"sid", 0>>
AllIDs == {SessionID(s) : s \in Sessions} \cup {StrayID}

NewSession(s) ==
    [Props |-> [UploadSessionID |-> SessionID(s), ExpireAt |-> 10 * s],
     ChunkSize |-> 5,
     Callback |-> NoString,
     CallbackSecret |-> <<"secret", s>>]

\* the upload session protocol's states
Terminal == {"Completed", "Cancelled", "Expired"}
Phases == {"Unstarted", "Issued"} \cup Terminal

NoCredential == [SessionID |-> NoString, ChunkSize |-> 0, UploadURLs |-> <<>>, Credential |-> NoString]

\* ------------------------------------------------------------------ inputs
Paths == {"a", "b"}
FileLists == {<<"a">>, <<"a", "b">>}

\* the elements of files at the positions in I, in order
Pick(files, I) ==
    LET F[k \in 0..Len(files)] ==
            IF k = 0 THEN <<>>
            ELSE IF k \in I THEN Append(F[k - 1], files[k]) ELSE F[k - 1]
    IN F[Len(files)]

SubLists(files) == {Pick(files, I) : I \in SUBSET (1..Len(files))}

\* the object lists the Session Client's List may answer with
ObjectLists == {[i \in 1..n |-> <<"obj", i>>] : n \in 0..MaxObjects}

SourceArgs ==
    [DisplayName : {"name"}, IsDownload : BOOLEAN, Speed : {0}, Expire : {0, 30}]

\* expiry times handed to Thumb; 0 stands for no expiry
ThumbExpiries == {0, 30}
ThumbExts == {"jpg"}

\* the paths handed to Open and LocalPath, the empty and a malformed one included
OpenPaths == Paths \cup {"", "%zz"}

\* the metadata lists the Session Client's MediaMeta may answer with
MediaMetaLists == {<<>>, <<"meta">>}

\* no Thumb or Source call remembered yet
NoCall == [call |-> [op |-> "none"], between |-> FALSE]

VARIABLES
    Policy,     \* handler.Policy, fixed at construction
    Mode,       \* handler.config.System().Mode
    sessions,   \* the caller's fs.UploadSession objects
    tok,        \* per session: where an in-flight Token call is blocked
    remote,     \* per session ID: protocol state of the session on the slave
    creds,      \* per session: the SessionID of the credential the caller holds
    closed,     \* per upload stream: how many times Close was called
    features,   \* the package's static feature bit-set: the bits that are set
    last,       \* the step just taken: inputs, Session Client calls, results
    seen        \* history: the first Thumb or Source call of the run, when recorded,
                \* and whether another handler ran since

vars == <<Policy, Mode, sessions, tok, remote, creds, closed, features, last, seen>>

Init ==
    /\ Policy \in Policies
    /\ Mode \in Modes
    /\ sessions = [s \in Sessions |-> NewSession(s)]
    /\ tok = [s \in Sessions |-> "idle"]
    /\ remote = [id \in AllIDs |-> "Unstarted"]
    /\ creds = [s \in Sessions |-> NoString]
    /\ closed = [f \in Streams |-> 0]
    /\ features = {}
    /\ last = [op |-> "none", calls |-> <<>>]
    /\ seen = NoCall

\* -------------------------------------------------------------------- List
\* What List hands back: the objects, the error, and the arguments with
\* which it invoked onProgress, in order.
ListReturnSkipsEmpty(res, err) ==
    IF err # Nil
    THEN [ret |-> <<>>, err |-> err, progress |-> <<>>]
    ELSE [ret |-> res, err |-> Nil,
          progress |-> IF Len(res) > 0 THEN <<Len(res)>> ELSE <<>>]

\* a List that reports progress before it looks at the error
ListReturnProgressFirst(res, err) ==
    IF err # Nil
    THEN [ret |-> <<>>, err |-> err, progress |-> <<Len(res)>>]
    ELSE [ret |-> res, err |-> Nil, progress |-> <<Len(res)>>]

ListReturn(res, err) ==
    IF err # Nil
    THEN [ret |-> <<>>, err |-> err, progress |-> <<>>]
    ELSE [ret |-> res, err |-> Nil, progress |-> <<Len(res)>>]

List(base, recursive, res, err) ==
    /\ last' = [op |-> "List", base |-> base, recursive |-> recursive,
                calls |-> <<[op |-> "List", base |-> base, recursive |-> recursive]>>,
                clientRes |-> res, clientErr |-> err,
                out |-> ListReturn(res, err)]
    /\ UNCHANGED <<features, Policy, Mode, sessions, tok, remote, creds, closed>>

\* --------------------------------------------------------------------- Put
\* How many times Put closes the stream, given what Upload returned.
PutClosesOnSuccessOnly(err) == IF err = Nil THEN 1 ELSE 0

PutCloses(err) == 1

Put(f, err) ==
    /\ closed[f] = 0
    /\ closed' = [closed EXCEPT ![f] = @ + PutCloses(err)]
    /\ last' = [op |-> "Put", f |-> f,
                calls |-> <<[op |-> "Upload", f |-> f]>>,
                clientErr |-> err, err |-> err]
    /\ UNCHANGED <<features, Policy, Mode, sessions, tok, remote, creds>>

\* ------------------------------------------------------------------ Delete
DeleteReturnDropsFailed(failed, err) ==
    [failed |-> <<>>, err |-> err]

DeleteReturn(failed, err) ==
    IF err # Nil
    THEN [failed |-> failed, err |-> err]
    ELSE [failed |-> <<>>, err |-> Nil]

Delete(files, failed, err) ==
    /\ last' = [op |-> "Delete", files |-> files,
                calls |-> <<[op |-> "DeleteFiles", files |-> files]>>,
                clientFailed |-> failed, clientErr |-> err,
                out |-> DeleteReturn(failed, err)]
    /\ UNCHANGED <<features, Policy, Mode, sessions, tok, remote, creds, closed>>

\* ------------------------------------------------------------------ Source
SourceNodeIdAlways(mode, policy) == policy.NodeID

SourceNodeId(mode, policy) ==
    IF mode = SlaveMode THEN policy.NodeID ELSE 0

\* a Source that hands the signing failure back as it got it
SourceReturnRawSign(policy, mode, src, args) ==
    IF ~ParseOK(policy.Edges.Node.Server)
    THEN [url |-> NoString, err |-> ErrParse, base |-> NoString]
    ELSE LET base == SlaveFileContentUrl(policy.Edges.Node.Server, src,
                         args.DisplayName, args.IsDownload, args.Speed,
                         SourceNodeId(mode, policy))
             signed == SignURI(policy.Edges.Node.SlaveKey, UrlString(base), args.Expire)
         IN IF signed.err # Nil
            THEN [url |-> NoString, base |-> UrlString(base), err |-> signed.err]
            ELSE [url |-> signed.url, base |-> UrlString(base), err |-> Nil]

SourceReturn(policy, mode, src, args) ==
    IF ~ParseOK(policy.Edges.Node.Server)
    THEN [url |-> NoString, err |-> ErrParse, base |-> NoString]
    ELSE LET base == SlaveFileContentUrl(policy.Edges.Node.Server, src,
                         args.DisplayName, args.IsDownload, args.Speed,
                         SourceNodeId(mode, policy))
             signed == SignURI(policy.Edges.Node.SlaveKey, UrlString(base), args.Expire)
         IN IF signed.err # Nil
            THEN [url |-> NoString, base |-> UrlString(base),
                  err |-> Wrap("failed to sign internal slave content URL", signed.err)]
            ELSE [url |-> signed.url, base |-> UrlString(base), err |-> Nil]

Source(src, args) ==
    /\ last' = [op |-> "Source", src |-> src, args |-> args, calls |-> <<>>,
                out |-> SourceReturn(Policy, Mode, src, args)]
    /\ UNCHANGED <<features, Policy, Mode, sessions, tok, remote, creds, closed>>

\* ------------------------------------------------------------------- Thumb
\* a Thumb that keeps the URL it signed last for a file and extension
ThumbReturnCached(policy, expire, ext, src) ==
    IF last.op = "Thumb" /\ last.src = src /\ last.ext = ext
    THEN last.out
    ELSE IF ~ParseOK(policy.Edges.Node.Server)
    THEN [url |-> NoString, err |-> Wrap("parse server url failed", ErrParse)]
    ELSE LET thumbURL == SlaveThumbUrl(policy.Edges.Node.Server, src, ext)
             signed == SignURI(policy.Edges.Node.SlaveKey, UrlString(thumbURL), expire)
         IN IF signed.err # Nil
            THEN [url |-> NoString, err |-> signed.err]
            ELSE [url |-> signed.url, err |-> Nil]

ThumbReturn(policy, expire, ext, src) ==
    IF ~ParseOK(policy.Edges.Node.Server)
    THEN [url |-> NoString, err |-> Wrap("parse server url failed", ErrParse)]
    ELSE LET thumbURL == SlaveThumbUrl(policy.Edges.Node.Server, src, ext)
             signed == SignURI(policy.Edges.Node.SlaveKey, UrlString(thumbURL), expire)
         IN IF signed.err # Nil
            THEN [url |-> NoString, err |-> signed.err]
            ELSE [url |-> signed.url, err |-> Nil]

Thumb(expire, ext, src) ==
    /\ last' = [op |-> "Thumb", expire |-> expire, ext |-> ext, src |-> src,
                calls |-> <<>>, out |-> ThumbReturn(Policy, expire, ext, src)]
    /\ UNCHANGED <<features, Policy, Mode, sessions, tok, remote, creds, closed>>

\* ------------------------------------------------------- Open and LocalPath
OpenReturn(path) == [file |-> "nil", err |-> <<"not implemented">>]

Open(path) ==
    /\ last' = [op |-> "Open", path |-> path, calls |-> <<>>, out |-> OpenReturn(path)]
    /\ UNCHANGED <<features, Policy, Mode, sessions, tok, remote, creds, closed>>

LocalPathReturnEchoes(path) == path

LocalPathReturn(path) == ""

LocalPath(path) ==
    /\ last' = [op |-> "LocalPath", path |-> path, calls |-> <<>>,
                out |-> LocalPathReturn(path)]
    /\ UNCHANGED <<features, Policy, Mode, sessions, tok, remote, creds, closed>>

\* ------------------------------------------------------------ Capabilities
\* a Capabilities with the two proxy flags exchanged
CapabilitiesReturnSwapsProxy(policy, static) ==
    [StaticFeatures |-> static,
     MediaMetaSupportedExts |-> policy.Settings.MediaMetaExts,
     MediaMetaProxy |-> policy.Settings.ThumbGeneratorProxy,
     ThumbSupportedExts |-> policy.Settings.ThumbExts,
     ThumbProxy |-> policy.Settings.MediaMetaGeneratorProxy,
     ThumbMaxSize |-> policy.Settings.ThumbMaxSize,
     ThumbSupportAllExts |-> policy.Settings.ThumbSupportAllExts]

CapabilitiesReturn(policy, static) ==
    [StaticFeatures |-> static,
     MediaMetaSupportedExts |-> policy.Settings.MediaMetaExts,
     MediaMetaProxy |-> policy.Settings.MediaMetaGeneratorProxy,
     ThumbSupportedExts |-> policy.Settings.ThumbExts,
     ThumbProxy |-> policy.Settings.ThumbGeneratorProxy,
     ThumbMaxSize |-> policy.Settings.ThumbMaxSize,
     ThumbSupportAllExts |-> policy.Settings.ThumbSupportAllExts]

Capabilities ==
    /\ last' = [op |-> "Capabilities", calls |-> <<>>,
                out |-> CapabilitiesReturn(Policy, features)]
    /\ UNCHANGED <<features, Policy, Mode, sessions, tok, remote, creds, closed>>

\* --------------------------------------------------------------- MediaMeta
MediaMetaReturn(res, err) == [ret |-> res, err |-> err]

MediaMeta(path, ext, res, err) ==
    /\ last' = [op |-> "MediaMeta", path |-> path, ext |-> ext,
                calls |-> <<[op |-> "MediaMeta", path |-> path, ext |-> ext]>>,
                clientRes |-> res, clientErr |-> err,
                out |-> MediaMetaReturn(res, err)]
    /\ UNCHANGED <<features, Policy, Mode, sessions, tok, remote, creds, closed>>

\* ------------------------------------------------------------------- Token
\* The session after Token stamped its callback URL.
TokenStamp(session) ==
    [session EXCEPT !.Callback =
        UrlString(MasterSlaveCallbackUrl(SiteURL, PolicyTypeRemote,
                      session.Props.UploadSessionID, session.CallbackSecret))]

\* CreateUploadSession called before the callback URL is stamped
TokenCreateCallUnstamped(session) ==
    [op |-> "CreateUploadSession",
     session |-> [session EXCEPT !.Callback = NoString], overwrite |-> FALSE]

TokenCreateCall(session) ==
    [op |-> "CreateUploadSession", session |-> session, overwrite |-> FALSE]

TokenURLCall(session) ==
    [op |-> "GetUploadURL", expire |-> session.Props.ExpireAt,
     sid |-> session.Props.UploadSessionID]

\* a credential with the chunk size recorded in the session
TokenCredentialSessionChunk(session, policy, uploadURL, sign) ==
    [SessionID |-> session.Props.UploadSessionID,
     ChunkSize |-> session.ChunkSize,
     UploadURLs |-> <<uploadURL>>,
     Credential |-> sign]

\* a credential made from the session the adapter handled last, as if the
\* session were kept in a field of the Driver
TokenCredentialShared(session, policy, uploadURL, sign) ==
    [SessionID |-> sessions[last.s].Props.UploadSessionID,
     ChunkSize |-> policy.Settings.ChunkSize,
     UploadURLs |-> <<uploadURL>>,
     Credential |-> sign]

TokenCredential(session, policy, uploadURL, sign) ==
    [SessionID |-> session.Props.UploadSessionID,
     ChunkSize |-> policy.Settings.ChunkSize,
     UploadURLs |-> <<uploadURL>>,
     Credential |-> sign]

\* the slave's answers to GetUploadURL(expire, sid): an upload URL on one of
\* its addresses with a signed credential, or an error
UploadAnswers(session) ==
    LET sid == session.Props.UploadSessionID
        sign == <<"credential", sid, session.Props.ExpireAt>>
    IN {[url |-> <<host, "upload", sid>>, sign |-> sign, err |-> Nil] :
            host \in {"http://slave", "http://slave2"}}
       \cup {[url |-> NoString, sign |-> NoString, err |-> ErrTransport]}

\* Token enters: the callback URL is stamped on the session, then
\* CreateUploadSession is called and Token blocks in it.
TokenBegin(s) ==
    /\ tok[s] = "idle"
    /\ sessions' = [sessions EXCEPT ![s] = TokenStamp(sessions[s])]
    /\ tok' = [tok EXCEPT ![s] = "create"]
    /\ last' = [op |-> "Token", at |-> "begin", s |-> s,
                calls |-> <<TokenCreateCall(sessions'[s])>>]
    /\ UNCHANGED <<features, Policy, Mode, remote, creds, closed>>

\* a Token that takes the callback URL off the session again when
\* CreateUploadSession fails
TokenCreatedRestores(s, err) ==
    /\ tok[s] = "create"
    /\ IF err # Nil
       THEN /\ tok' = [tok EXCEPT ![s] = "idle"]
            /\ sessions' = [sessions EXCEPT ![s].Callback = NoString]
            /\ last' = [op |-> "Token", at |-> "create", s |-> s, calls |-> <<>>,
                        clientErr |-> err, returned |-> TRUE,
                        cred |-> NoCredential, err |-> err]
            /\ UNCHANGED remote
       ELSE /\ tok' = [tok EXCEPT ![s] = "url"]
            /\ remote' = [remote EXCEPT ![sessions[s].Props.UploadSessionID] = "Issued"]
            /\ last' = [op |-> "Token", at |-> "create", s |-> s,
                        calls |-> <<TokenURLCall(sessions[s])>>,
                        clientErr |-> Nil, returned |-> FALSE]
            /\ UNCHANGED sessions
    /\ UNCHANGED <<features, Policy, Mode, creds, closed>>

\* CreateUploadSession answers: on an error Token returns it; otherwise the
\* session now exists on the slave and Token calls GetUploadURL.
TokenCreated(s, err) ==
    /\ tok[s] = "create"
    /\ IF err # Nil
       THEN /\ tok' = [tok EXCEPT ![s] = "idle"]
            /\ last' = [op |-> "Token", at |-> "create", s |-> s, calls |-> <<>>,
                        clientErr |-> err, returned |-> TRUE,
                        cred |-> NoCredential, err |-> err]
            /\ UNCHANGED remote
       ELSE /\ tok' = [tok EXCEPT ![s] = "url"]
            /\ remote' = [remote EXCEPT ![sessions[s].Props.UploadSessionID] = "Issued"]
            /\ last' = [op |-> "Token", at |-> "create", s |-> s,
                        calls |-> <<TokenURLCall(sessions[s])>>,
                        clientErr |-> Nil, returned |-> FALSE]
    /\ UNCHANGED <<features, Policy, Mode, sessions, creds, closed>>

\* a Token that rolls the remote session back when GetUploadURL fails
TokenSignedRollsBack(s, uploadURL, sign, err) ==
    /\ tok[s] = "url"
    /\ tok' = [tok EXCEPT ![s] = "idle"]
    /\ IF err # Nil
       THEN /\ last' = [op |-> "Token", at |-> "url", s |-> s,
                        calls |-> <<[op |-> "DeleteUploadSession",
                                     sid |-> sessions[s].Props.UploadSessionID]>>,
                        clientErr |-> err, clientURL |-> uploadURL, clientSign |-> sign,
                        returned |-> TRUE, cred |-> NoCredential,
                        err |-> Wrap("failed to sign upload url", err)]
            /\ remote' = [remote EXCEPT ![sessions[s].Props.UploadSessionID] =
                              IF @ = "Issued" THEN "Cancelled" ELSE @]
            /\ UNCHANGED creds
       ELSE /\ last' = [op |-> "Token", at |-> "url", s |-> s, calls |-> <<>>,
                        clientErr |-> Nil, clientURL |-> uploadURL, clientSign |-> sign,
                        returned |-> TRUE,
                        cred |-> TokenCredential(sessions[s], Policy, uploadURL, sign),
                        err |-> Nil]
            /\ creds' = [creds EXCEPT ![s] = last'.cred.SessionID]
            /\ UNCHANGED remote
    /\ UNCHANGED <<features, Policy, Mode, sessions, closed>>

\* GetUploadURL answers and Token returns.
TokenSigned(s, uploadURL, sign, err) ==
    /\ tok[s] = "url"
    /\ tok' = [tok EXCEPT ![s] = "idle"]
    /\ IF err # Nil
       THEN /\ last' = [op |-> "Token", at |-> "url", s |-> s, calls |-> <<>>,
                        clientErr |-> err, clientURL |-> uploadURL, clientSign |-> sign,
                        returned |-> TRUE, cred |-> NoCredential,
                        err |-> Wrap("failed to sign upload url", err)]
            /\ UNCHANGED creds
       ELSE /\ last' = [op |-> "Token", at |-> "url", s |-> s, calls |-> <<>>,
                        clientErr |-> Nil, clientURL |-> uploadURL, clientSign |-> sign,
                        returned |-> TRUE,
                        cred |-> TokenCredential(sessions[s], Policy, uploadURL, sign),
                        err |-> Nil]
            /\ creds' = [creds EXCEPT ![s] = last'.cred.SessionID]
    /\ UNCHANGED <<features, Policy, Mode, sessions, remote, closed>>

\* ------------------------------------------------------------- CancelToken
\* a CancelToken that passes an identifier other than the session's
CancelTokenCallStray(session) ==
    [op |-> "DeleteUploadSession", sid |-> StrayID]

CancelTokenCall(session) ==
    [op |-> "DeleteUploadSession", sid |-> session.Props.UploadSessionID]

\* the slave serving DeleteUploadSession: a live session becomes cancelled
SlaveDelete(r, sid) ==
    IF r[sid] = "Issued" THEN [r EXCEPT ![sid] = "Cancelled"] ELSE r

CancelToken(s, err) ==
    /\ remote' = IF err = Nil THEN SlaveDelete(remote, CancelTokenCall(sessions[s]).sid)
                 ELSE remote
    /\ last' = [op |-> "CancelToken", s |-> s,
                calls |-> <<CancelTokenCall(sessions[s])>>,
                clientErr |-> err, err |-> err]
    /\ UNCHANGED <<features, Policy, Mode, sessions, tok, creds, closed>>

\* ---------------------------------------------------------- CompleteUpload
\* a CompleteUpload that finalizes the session itself
CompleteUploadFinalizes(s) ==
    /\ remote' = [remote EXCEPT ![sessions[s].Props.UploadSessionID] = "Completed"]
    /\ last' = [op |-> "CompleteUpload", s |-> s, calls |-> <<>>, err |-> Nil]
    /\ UNCHANGED <<features, Policy, Mode, sessions, tok, creds, closed>>

\* a CompleteUpload that cleans the remote session up
CompleteUploadDeletes(s) ==
    /\ remote' = SlaveDelete(remote, sessions[s].Props.UploadSessionID)
    /\ last' = [op |-> "CompleteUpload", s |-> s,
                calls |-> <<[op |-> "DeleteUploadSession",
                             sid |-> sessions[s].Props.UploadSessionID]>>,
                err |-> Nil]
    /\ UNCHANGED <<features, Policy, Mode, sessions, tok, creds, closed>>

CompleteUpload(s) ==
    /\ last' = [op |-> "CompleteUpload", s |-> s, calls |-> <<>>, err |-> Nil]
    /\ UNCHANGED <<features, Policy, Mode, sessions, tok, remote, creds, closed>>

\* ------------------------------------------------------ the slave's events
\* The slave received the whole upload and invokes the stamped callback URL;
\* only a client holding the credential can have uploaded.
Callback(s) ==
    /\ remote[SessionID(s)] = "Issued"
    /\ creds[s] # NoString
    /\ remote' = [remote EXCEPT ![SessionID(s)] = "Completed"]
    /\ last' = [op |-> "Callback", s |-> s, calls |-> <<>>,
                url |-> sessions[s].Callback]
    /\ UNCHANGED <<features, Policy, Mode, sessions, tok, creds, closed>>

\* The slave drops a session whose expiry passed.
Expire(s) ==
    /\ remote[SessionID(s)] = "Issued"
    /\ remote' = [remote EXCEPT ![SessionID(s)] = "Expired"]
    /\ last' = [op |-> "Expire", s |-> s, calls |-> <<>>]
    /\ UNCHANGED <<features, Policy, Mode, sessions, tok, creds, closed>>

\* ------------------------------------------------------------------- Next
\* The first Thumb or Source call of a run, once recorded, stays in seen.
Remember(step) == IF seen = NoCall THEN [call |-> step, between |-> FALSE] ELSE seen

\* Another handler ran after the recorded call.
Between == IF seen = NoCall THEN seen ELSE [seen EXCEPT !.between = TRUE]

\* The handlers that keep no state between calls, but for Thumb and Source.
PlainHandlers ==
    \/ \E base \in Paths, recursive \in BOOLEAN, res \in ObjectLists, err \in ClientErrs :
           List(base, recursive, res, err) /\ UNCHANGED seen
    \/ \E f \in Streams, err \in ClientErrs : Put(f, err) /\ UNCHANGED seen
    \/ \E files \in FileLists, err \in ClientErrs :
           \E failed \in SubLists(files) : Delete(files, failed, err) /\ UNCHANGED seen
    \/ \E path \in OpenPaths : Open(path) /\ UNCHANGED seen
    \/ \E path \in OpenPaths : LocalPath(path) /\ UNCHANGED seen
    \/ Capabilities /\ UNCHANGED seen
    \/ \E path \in Paths, ext \in ThumbExts, res \in MediaMetaLists, err \in ClientErrs :
           MediaMeta(path, ext, res, err) /\ UNCHANGED seen

\* The stateless handlers.
NextFiles ==
    \/ PlainHandlers
    \/ \E src \in Paths, args \in SourceArgs : Source(src, args) /\ UNCHANGED seen
    \/ \E expire \in ThumbExpiries, ext \in ThumbExts, src \in Paths :
           Thumb(expire, ext, src) /\ UNCHANGED seen

\* The upload session handlers and the slave's events.
NextUpload ==
    \/ \E s \in Sessions : TokenBegin(s) /\ UNCHANGED seen
    \/ \E s \in Sessions, err \in ClientErrs : TokenCreated(s, err) /\ UNCHANGED seen
    \/ \E s \in Sessions :
           \E answer \in UploadAnswers(sessions[s]) :
               TokenSigned(s, answer.url, answer.sign, answer.err) /\ UNCHANGED seen
    \/ \E s \in Sessions, err \in ClientErrs : CancelToken(s, err) /\ UNCHANGED seen
    \/ \E s \in Sessions : CompleteUpload(s) /\ UNCHANGED seen
    \/ \E s \in Sessions : Callback(s) /\ UNCHANGED seen
    \/ \E s \in Sessions : Expire(s) /\ UNCHANGED seen

Next == NextFiles \/ NextUpload

\* the adapter as a whole: about a million states, on which the formulas
\* below hold as well; the specifications after it are its handlers
\* grouped by the state they share
Spec == Init /\ [][Next]_vars

\* the stateless handlers alone, under every policy and mode
SpecFiles == Init /\ [][NextFiles]_vars

\* the upload session protocol alone; its handlers read of the policy only
\* the chunk size
InitUpload == Init /\ Policy = NewPolicy("http://slave", "key", 1) /\ Mode = MasterMode
SpecUpload == InitUpload /\ [][NextUpload]_vars

\* the stateless handlers with the first Thumb or Source call of the run
\* kept in seen, for comparing later calls with it, and with a note of
\* whether another handler ran after it
NextSign ==
    \/ \E base \in Paths, recursive \in BOOLEAN, res \in ObjectLists, err \in ClientErrs :
           List(base, recursive, res, err) /\ seen' = Between
    \/ \E f \in Streams, err \in ClientErrs : Put(f, err) /\ seen' = Between
    \/ \E files \in FileLists, err \in ClientErrs :
           \E failed \in SubLists(files) : Delete(files, failed, err) /\ seen' = Between
    \/ \E path \in OpenPaths : Open(path) /\ seen' = Between
    \/ \E path \in OpenPaths : LocalPath(path) /\ seen' = Between
    \/ Capabilities /\ seen' = Between
    \/ \E path \in Paths, ext \in ThumbExts, res \in MediaMetaLists, err \in ClientErrs :
           MediaMeta(path, ext, res, err) /\ seen' = Between
    \/ \E src \in Paths, args \in SourceArgs : Source(src, args) /\ seen' = Remember(last')
    \/ \E expire \in ThumbExpiries, ext \in ThumbExts, src \in Paths :
           Thumb(expire, ext, src) /\ seen' = Remember(last')

SpecSign == Init /\ [][NextSign]_vars

\* the handlers that can fail, under every policy and mode; what a call
\* returns depends on no other stream or session, so one of each is used
NextErrors ==
    \/ \E base \in Paths, recursive \in BOOLEAN, res \in ObjectLists, err \in ClientErrs :
           List(base, recursive, res, err) /\ UNCHANGED seen
    \/ \E f \in {1}, err \in ClientErrs : Put(f, err) /\ UNCHANGED seen
    \/ \E files \in FileLists, err \in ClientErrs :
           \E failed \in SubLists(files) : Delete(files, failed, err) /\ UNCHANGED seen
    \/ \E path \in Paths, ext \in ThumbExts, res \in MediaMetaLists, err \in ClientErrs :
           MediaMeta(path, ext, res, err) /\ UNCHANGED seen
    \/ \E src \in Paths, args \in SourceArgs : Source(src, args) /\ UNCHANGED seen
    \/ \E expire \in ThumbExpiries, ext \in ThumbExts, src \in Paths :
           Thumb(expire, ext, src) /\ UNCHANGED seen
    \/ \E s \in {1} : TokenBegin(s) /\ UNCHANGED seen
    \/ \E s \in {1}, err \in ClientErrs : TokenCreated(s, err) /\ UNCHANGED seen
    \/ \E s \in {1} :
           \E answer \in UploadAnswers(sessions[s]) :
               TokenSigned(s, answer.url, answer.sign, answer.err) /\ UNCHANGED seen
    \/ \E s \in {1}, err \in ClientErrs : CancelToken(s, err) /\ UNCHANGED seen

SpecErrors == Init /\ [][NextErrors]_vars

\* ================================================= the stateless handlers
\* C1: whatever Upload returns, the stream handed to Put has been closed
\* exactly once when Put has returned, and no stream is ever closed twice.
PutClosesStreamOnce ==
    /\ \A f \in Streams : closed[f] <= 1
    /\ last.op = "Put" => closed[last.f] = 1 /\ last.err = last.clientErr

PutClosedAfterFailedUpload ==
    last.op = "Put" /\ last.clientErr # Nil /\ closed[last.f] = 1

DeleteSurfacesPathFailures ==
    last.op = "Delete" /\ last.clientErr = Nil /\ last.clientFailed # <<>>
        => last.out.failed = last.clientFailed

\* C5: the node identifier in the content URL Source builds is the
\* policy's node ID in slave mode and zero in every other mode.
SourceNodeIdByMode ==
    last.op = "Source" /\ last.out.base # NoString =>
        /\ last.out.base[4] = IF Mode = SlaveMode THEN Policy.NodeID ELSE 0
        /\ last.out.err = Nil => last.out.url[4] = last.out.base[4]

SourceInSlaveMode ==
    /\ last.op = "Source"
    /\ Mode = SlaveMode
    /\ Policy.NodeID = 2
    /\ last.out.err = Nil
    /\ last.out.url[4] = 2

\* C6: when List succeeds, onProgress was invoked exactly once, with the
\* number of objects List returns, also when there are none.
ListProgressOnce ==
    last.op = "List" /\ last.out.err = Nil =>
        /\ last.out.ret = last.clientRes
        /\ last.out.progress = <<Len(last.out.ret)>>

ListOfNothing ==
    /\ last.op = "List"
    /\ last.out.err = Nil
    /\ last.out.ret = <<>>
    /\ last.out.progress = <<0>>

\* ============================================== the upload session protocol
\* the DeleteUploadSession calls for sid among the calls of a step
DeletesIssued(step, sid) ==
    {i \in DOMAIN step.calls : step.calls[i] = [op |-> "DeleteUploadSession", sid |-> sid]}

AnyDeleteIssued(step) ==
    \E i \in DOMAIN step.calls : step.calls[i].op = "DeleteUploadSession"

\* C4: CancelToken issues exactly one DeleteUploadSession, for the ID of its
\* session, which is the ID a successful Token created the remote session
\* with and returned in the credential; nothing else issues a delete.
CancelDeletesCreatedSession ==
    /\ last.op = "CancelToken" =>
           LET sid == sessions[last.s].Props.UploadSessionID
           IN /\ last.calls = <<[op |-> "DeleteUploadSession", sid |-> sid]>>
              /\ creds[last.s] # NoString =>
                     creds[last.s] = sid /\ remote[sid] # "Unstarted"
    /\ last.op # "CancelToken" => ~AnyDeleteIssued(last)
    /\ last.op = "Token" /\ last.at = "begin" =>
           last.calls[1].session.Props.UploadSessionID = SessionID(last.s)
    /\ \A id \in AllIDs \ {SessionID(s) : s \in Sessions} : remote[id] = "Unstarted"

TokenThenCancel ==
    /\ last.op = "CancelToken"
    /\ last.err = Nil
    /\ creds[last.s] # NoString
    /\ remote[creds[last.s]] = "Cancelled"

\* C7: Token stamps the callback URL, then calls CreateUploadSession with
\* the stamped session, then GetUploadURL with the session's ID and expiry;
\* the callback URL is the only field of a session that ever changes.
TokenStepsInOrder ==
    /\ [](last.op = "Token" /\ last.at = "begin" =>
            LET c == last.calls[1]
            IN /\ Len(last.calls) = 1
               /\ c.op = "CreateUploadSession"
               /\ c.session = sessions[last.s]
               /\ c.session.Callback =
                      <<SiteURL, "callback", PolicyTypeRemote,
                        SessionID(last.s), <<"secret", last.s>>>>)
    /\ [](\A s \in Sessions : tok[s] # "idle" => sessions[s].Callback # NoString)
    /\ [](last.op = "Token" /\ last.at = "create" /\ ~last.returned =>
            last.calls = <<[op |-> "GetUploadURL",
                            expire |-> sessions[last.s].Props.ExpireAt,
                            sid |-> SessionID(last.s)]>>)
    /\ [][/\ last'.op = "Token" /\ last'.at = "create" => tok[last'.s] = "create"
          /\ last'.op = "Token" /\ last'.at = "url" => tok[last'.s] = "url"
          /\ \A s \in Sessions :
                 sessions'[s] # sessions[s] =>
                     /\ last'.op = "Token" /\ last'.at = "begin" /\ last'.s = s
                     /\ sessions'[s] = [sessions[s] EXCEPT !.Callback = sessions'[s].Callback]]_vars

TokenCallsGetUploadURL ==
    /\ last.op = "Token"
    /\ last.at = "create"
    /\ ~last.returned
    /\ Len(last.calls) = 1
    /\ sessions[last.s].Callback # NoString

\* C8: when GetUploadURL fails after the session was created, Token returns
\* an error and no credential and deletes nothing; the remote session stays
\* until CancelToken on it or its expiry, and CancelToken deletes that one.
PartialTokenLeftToCaller ==
    /\ [](last.op = "Token" /\ last.at = "url" /\ last.clientErr # Nil =>
            last.cred = NoCredential /\ last.err # Nil /\ last.calls = <<>>)
    /\ [][/\ last'.op = "Token" =>
                 \A id \in AllIDs : remote[id] = "Issued" => remote'[id] = "Issued"
          /\ \A s \in Sessions :
                 /\ remote[SessionID(s)] = "Issued"
                 /\ creds[s] = NoString
                 /\ remote'[SessionID(s)] # "Issued"
                 => last'.s = s /\ last'.op \in {"CancelToken", "Expire"}
          /\ last'.op = "CancelToken" /\ last'.err = Nil =>
                 /\ remote'[SessionID(last'.s)] # "Issued"
                 /\ \A id \in AllIDs \ {SessionID(last'.s)} : remote'[id] = remote[id]]_vars

TokenFailedAfterCreate ==
    /\ last.op = "Token"
    /\ last.at = "url"
    /\ last.clientErr # Nil
    /\ creds[last.s] = NoString
    /\ remote[SessionID(last.s)] = "Issued"

\* C9: CompleteUpload always returns nil, calls nothing and changes neither
\* the session nor the slave's sessions; only the slave's callback takes a
\* session to Completed.
CompleteUploadIsNoOp ==
    /\ [](last.op = "CompleteUpload" => last.err = Nil /\ last.calls = <<>>)
    /\ [](\A s \in Sessions : ENABLED CompleteUpload(s))
    /\ [][/\ last'.op = "CompleteUpload" =>
                 /\ sessions' = sessions
                 /\ remote' = remote
                 /\ creds' = creds
                 /\ tok' = tok
          /\ \A id \in AllIDs :
                 remote'[id] = "Completed" /\ remote[id] # "Completed" =>
                     last'.op = "Callback" /\ SessionID(last'.s) = id]_vars

CompleteUploadOnIssued ==
    /\ last.op = "CompleteUpload"
    /\ last.err = Nil
    /\ remote[SessionID(last.s)] = "Issued"

\* the transitions of the session state machine
Edges ==
    {<<"Unstarted", "Issued">>} \cup {<<"Issued", t>> : t \in Terminal}

\* C10 as stated: a session moves only along Unstarted -> Issued ->
\* {Completed, Cancelled, Expired}, never out of a terminal state, and a
\* remote session deletion is issued only for a session that is Issued.
UploadStateMachineEnforced ==
    [][\A s \in Sessions :
           LET id == SessionID(s)
           IN /\ remote'[id] # remote[id] => <<remote[id], remote'[id]>> \in Edges
              /\ remote[id] \in Terminal => remote'[id] = remote[id]
              /\ DeletesIssued(last', id) # {} => remote[id] = "Issued"]_vars

\* C10 as the handlers have it: the state machine is the caller's to keep.
\* A session leaves a terminal state only by a Token re-entered on it whose
\* CreateUploadSession succeeds; every other move is along the machine's
\* edges; a deletion is issued by CancelToken alone, for its own session,
\* in whatever state that session is.
UploadStateMachineByCaller ==
    [][/\ \A s \in Sessions :
              LET id == SessionID(s)
              IN /\ remote'[id] # remote[id] =>
                     \/ <<remote[id], remote'[id]>> \in Edges
                     \/ /\ remote[id] \in Terminal
                        /\ remote'[id] = "Issued"
                        /\ last'.op = "Token" /\ last'.at = "create" /\ last'.s = s
                 /\ last'.op \in {"CompleteUpload", "Callback", "Expire", "CancelToken"}
                        /\ remote[id] \in Terminal
                    => remote'[id] = remote[id]
                 /\ last'.op = "CancelToken" /\ last'.s = s => Cardinality(DeletesIssued(last', id)) = 1
       /\ \A id \in AllIDs :
              DeletesIssued(last', id) # {} =>
                  last'.op = "CancelToken" /\ SessionID(last'.s) = id]_vars

CancelOnUnstarted ==
    /\ last.op = "CancelToken"
    /\ remote[SessionID(last.s)] = "Unstarted"
    /\ DeletesIssued(last, SessionID(last.s)) # {}

\* ======================================================= error propagation
\* the error a handler's step handed to its caller
Returned(step) ==
    IF step.op \in {"List", "Delete", "MediaMeta", "Source", "Thumb"} THEN step.out.err
    ELSE step.err

\* the steps in which a handler returns after a Session Client failure
ClientFailed(step) ==
    /\ step.op \in {"List", "Put", "Delete", "MediaMeta", "CancelToken", "Token"}
    /\ step.op = "Token" => step.at \in {"create", "url"}
    /\ step.clientErr # Nil

\* err is cause with at least one message of context in front of it
Wraps(err, cause) ==
    /\ Len(err) > Len(cause)
    /\ SubSeq(err, Len(err) - Len(cause) + 1, Len(err)) = cause

\* C11 as stated: every Session Client failure of List, Put, Delete, Token,
\* CancelToken and MediaMeta reaches the caller wrapped, and so do both of
\* Source's failures.
EveryFailureWrapped ==
    /\ ClientFailed(last) => Wraps(Returned(last), last.clientErr)
    /\ last.op = "Source" /\ last.out.err # Nil =>
           \/ Wraps(last.out.err, ErrParse)
           \/ Wraps(last.out.err, ErrSign)

\* C11 as the handlers have it: only Token's upload-URL step and Source's
\* signing step wrap; every other failure is handed back unchanged.
FailuresWrappedInTwoPlaces ==
    /\ ClientFailed(last) =>
           IF last.op = "Token" /\ last.at = "url"
           THEN Returned(last) = <<"failed to sign upload url">> \o last.clientErr
           ELSE Returned(last) = last.clientErr
    /\ last.op = "Source" =>
           IF Policy.Edges.Node.Server = BadServer
           THEN last.out.err = ErrParse
           ELSE IF Policy.Edges.Node.SlaveKey = ""
           THEN last.out.err = <<"failed to sign internal slave content URL">> \o ErrSign
           ELSE last.out.err = Nil

SourceSignFailureWrapped ==
    /\ last.op = "Source"
    /\ Wraps(last.out.err, ErrSign)

\* ============================================= capabilities and local access
\* C12: the descriptor Capabilities returns carries the policy's six
\* thumbnail and media-metadata settings as they are, on every call, and
\* the static feature bit-set stays as the package constructed it.
CapabilitiesFollowPolicy ==
    /\ features = {}
    /\ last.op = "Capabilities" =>
           /\ last.out.ThumbSupportedExts = Policy.Settings.ThumbExts
           /\ last.out.ThumbProxy = Policy.Settings.ThumbGeneratorProxy
           /\ last.out.ThumbMaxSize = Policy.Settings.ThumbMaxSize
           /\ last.out.ThumbSupportAllExts = Policy.Settings.ThumbSupportAllExts
           /\ last.out.MediaMetaSupportedExts = Policy.Settings.MediaMetaExts
           /\ last.out.MediaMetaProxy = Policy.Settings.MediaMetaGeneratorProxy
           /\ last.out.StaticFeatures = features

CapabilitiesOfJpgPngPolicy ==
    /\ last.op = "Capabilities"
    /\ last.out.ThumbSupportedExts = <<"jpg", "png">>
    /\ last.out.ThumbProxy
    /\ ~last.out.MediaMetaProxy

\* C13: for every path Open returns no file and an error, LocalPath returns
\* the empty string, and neither calls the Session Client.
NoLocalAccess ==
    /\ \A path \in OpenPaths : ENABLED Open(path) /\ ENABLED LocalPath(path)
    /\ last.op = "Open" =>
           last.out.file = "nil" /\ last.out.err # Nil /\ last.calls = <<>>
    /\ last.op = "LocalPath" => last.out = "" /\ last.calls = <<>>

LocalPathOfMalformedPath ==
    /\ last.op = "LocalPath"
    /\ last.path = "%zz"
    /\ last.out = ""
    /\ \E f \in Streams : closed[f] = 1

ListFailureSkipsProgress ==
    last.op = "List" =>
        /\ Len(last.out.progress) <= 1
        /\ last.clientErr # Nil =>
               /\ last.out.err = last.clientErr
               /\ last.out.ret = <<>>
               /\ last.out.progress = <<>>

ListFailedWithObjects ==
    /\ last.op = "List"
    /\ last.clientErr # Nil
    /\ last.clientRes # <<>>
    /\ last.out.ret = <<>>
    /\ last.out.progress = <<>>

\* ================================================ sessions side by side
\* a Token step that returned a credential
TokenSucceeded(step) ==
    step.op = "Token" /\ step.at = "url" /\ step.err = Nil

\* C14: with Token and CancelToken calls on different sessions interleaved,
\* a Token's credential carries its own session's ID and the upload URL
\* answered to it, a CancelToken deletes its own session only, a step on one
\* session leaves every other session as it was, and the adapter's
\* configuration never changes.
SessionsDoNotInterfere ==
    /\ [](TokenSucceeded(last) =>
            /\ last.cred.SessionID = SessionID(last.s)
            /\ last.cred.UploadURLs = <<last.clientURL>>
            /\ last.clientURL[3] = SessionID(last.s))
    /\ [][/\ Policy' = Policy /\ Mode' = Mode /\ features' = features
          /\ \A s \in Sessions :
                 last'.s # s =>
                     /\ sessions'[s] = sessions[s]
                     /\ remote'[SessionID(s)] = remote[SessionID(s)]
                     /\ creds'[s] = creds[s]
                     /\ tok'[s] = tok[s]
                     /\ DeletesIssued(last', SessionID(s)) = {}]_vars

TokenReturnedBesideAnother ==
    /\ TokenSucceeded(last)
    /\ last.cred.SessionID = SessionID(last.s)
    /\ \E s \in Sessions : s # last.s /\ tok[s] = "url"

\* C16: when CreateUploadSession fails, Token returns that error and no
\* credential, calls neither GetUploadURL nor DeleteUploadSession, and
\* leaves the session with the callback URL it stamped.
FailedCreateKeepsCallback ==
    last.op = "Token" /\ last.at = "create" /\ last.clientErr # Nil =>
        /\ last.returned
        /\ last.err = last.clientErr
        /\ last.cred = NoCredential
        /\ last.calls = <<>>
        /\ tok[last.s] = "idle"
        /\ sessions[last.s].Callback # NoString

TokenFailedAtCreate ==
    /\ last.op = "Token"
    /\ last.at = "create"
    /\ last.clientErr # Nil
    /\ remote[SessionID(last.s)] = "Unstarted"
    /\ sessions[last.s].Callback # NoString

\* C18: the credential of a successful Token has the one upload URL and the
\* signed credential GetUploadURL answered, the session's ID, and the
\* policy's chunk size.
CredentialFields ==
    TokenSucceeded(last) =>
        /\ Len(last.cred.UploadURLs) = 1
        /\ last.cred.UploadURLs[1] = last.clientURL
        /\ last.cred.Credential = last.clientSign
        /\ last.cred.SessionID = sessions[last.s].Props.UploadSessionID
        /\ last.cred.ChunkSize = Policy.Settings.ChunkSize

CredentialWithPolicyChunkSize ==
    /\ TokenSucceeded(last)
    /\ last.cred.ChunkSize = 4
    /\ sessions[last.s].ChunkSize = 5
    /\ last.cred.UploadURLs = <<last.clientURL>>

====
